---- MODULE Spec2Model ----
(***************************************************************************)
(* Model of DORAMetricsCalculator (src/dora.py).                           *)
(*                                                                         *)
(* One behaviour is one call of get_all_metrics against one environment:   *)
(* the data the Azure DevOps clients would return (repositories, builds,   *)
(* build changes, work items) and the calls that raise.  Instants are      *)
(* seconds since an epoch; a metric value is an exact rational <<n, d>>    *)
(* in lowest terms with d > 0 (the code computes IEEE doubles; rounding is *)
(* not modelled).                                                          *)
(***************************************************************************)
EXTENDS Integers, Sequences, FiniteSets, TLC

VARIABLES
    pc,             \* position inside get_all_metrics
    days_back,      \* argument of get_all_metrics
    start_date,     \* local of get_all_metrics; <<>> until assigned
    end_date,       \* local of get_all_metrics; <<>> until assigned
    metrics,        \* the dict under construction: metric name -> value
    raised,         \* reducer whose exception left get_all_metrics, or "none"
    server_repos,   \* the repositories of the project, as the git client lists them
    repos_fault,    \* reducers in which git_client.get_repositories raises
    server_builds,  \* every build the project has, as the build client knows them
    builds_fault,   \* reducers in which builds_client.get_builds raises
    server_changes, \* build id -> outcome of get_build_changes
    ttr_fault,      \* "none", or the call at the top of get_time_to_restore that raises
    server_items    \* work items matched by the WIQL query, in order

vars == <<pc, days_back, start_date, end_date, metrics, raised,
          server_repos, repos_fault, server_builds, builds_fault,
          server_changes, ttr_fault, server_items>>

env == <<days_back, server_repos, repos_fault, server_builds, builds_fault,
         server_changes, ttr_fault, server_items>>

-----------------------------------------------------------------------------
(* Bounds of the model.                                                    *)

MaxBuilds == 3          \* builds in the project (build-centred environments)
MaxChangeBuilds == 2    \* builds in the project (change-centred environments)
MaxChanges == 2         \* changes associated with one build
MaxIncidents == 3       \* work items matched by the WIQL query
MaxDaysBack == 2        \* largest days_back tried

-----------------------------------------------------------------------------
(* Time.                                                                   *)

SecondsPerHour == 3600
SecondsPerDay == 86400

\* datetime.now(): 60 hours after the epoch, i.e. 12:00 on day 2
Now == 216000

Hours(h) == h * SecondsPerHour

\* datetime.date(): the calendar day of a naive instant
date(t) == t \div SecondsPerDay

\* timedelta(days = n), in seconds
timedelta_days(n) == n * SecondsPerDay

-----------------------------------------------------------------------------
(* Exact rationals.                                                        *)

Abs(x) == IF x < 0 THEN 0 - x ELSE x

RECURSIVE GCD(_, _)
GCD(a, b) == IF b = 0 THEN a ELSE GCD(b, a % b)

\* n / d in lowest terms, d # 0
Rat(n, d) ==
    LET s == IF d < 0 THEN 0 - 1 ELSE 1
        g == GCD(Abs(n), Abs(d))
    IN  <<(s * n) \div g, (s * d) \div g>>

Zero == <<0, 1>>

RatLeq(p, q) == p[1] * q[2] <= q[1] * p[2]
RatLess(p, q) == p[1] * q[2] < q[1] * p[2]
RatAdd(p, q) == Rat(p[1] * q[2] + q[1] * p[2], p[2] * q[2])
RatHalf(p) == Rat(p[1], 2 * p[2])

Range(s) == {s[i] : i \in DOMAIN s}

-----------------------------------------------------------------------------
(* numpy / pandas / str helpers, computed the way the libraries do.        *)

\* list.sort() by insertion, on rationals
RECURSIVE sorted(_)
sorted(xs) ==
    IF xs = <<>> THEN <<>>
    ELSE LET x == Head(xs)
             s == sorted(Tail(xs))
             k == Cardinality({i \in DOMAIN s : RatLess(s[i], x)})
         IN  SubSeq(s, 1, k) \o <<x>> \o SubSeq(s, k + 1, Len(s))

\* np.median of a non-empty list: the middle element of the sorted list, or
\* the mean of the two middle elements
np_median(xs) ==
    LET s == sorted(xs)
        n == Len(s)
    IN  IF n % 2 = 1 THEN s[(n + 1) \div 2]
        ELSE RatHalf(RatAdd(s[n \div 2], s[n \div 2 + 1]))

\* pd.Series(xs).value_counts(): distinct value -> number of occurrences
value_counts(xs) ==
    [v \in Range(xs) |-> Cardinality({i \in DOMAIN xs : xs[i] = v})]

RECURSIVE SumOver(_, _)
SumOver(f, S) ==
    IF S = {} THEN 0
    ELSE LET v == CHOOSE x \in S : TRUE
         IN  f[v] + SumOver(f, S \ {v})

\* Series.mean() of a non-empty series of counts
series_mean(counts) ==
    Rat(SumOver(counts, DOMAIN counts), Cardinality(DOMAIN counts))

\* str.lower() on the repository names of the model
lower(s) ==
    CASE s = "App" -> "app"
      [] s = "APP" -> "app"
      [] s = "Other" -> "other"
      [] OTHER -> s

-----------------------------------------------------------------------------
(* Arguments of get_all_metrics and outcomes of calls.                     *)

ProjectName == "proj"
RepositoryName == "App"
BranchName == "main"

None == <<>>

MetricNames == {"deployment_frequency", "lead_time_for_changes",
                "change_failure_rate", "time_to_restore"}

\* outcome of a reducer: it raised, or it returned value
Raise == [raised |-> TRUE, value |-> Zero]
Return(v) == [raised |-> FALSE, value |-> v]

-----------------------------------------------------------------------------
(* The Azure DevOps clients.                                               *)

\* builds_client.get_builds: the project's builds that pass the filters.  A
\* build is in the window when min_time <= finish_time < max_time.
get_builds(min_time, max_time, status_filter, result_filter, branch_name) ==
    SelectSeq(server_builds, LAMBDA b :
        /\ b.status = status_filter
        /\ result_filter # None => b.result = result_filter[1]
        /\ b.source_branch = branch_name
        /\ min_time <= b.finish_time[1]
        /\ b.finish_time[1] < max_time)

refs_heads(branch_name) == "refs/heads/" \o branch_name

\* get_repository_id, called inside reducer `caller`: the id of the first
\* repository whose name matches case-insensitively, None when there is
\* none; get_repositories may raise
get_repository_id(caller, project_name, repository_name) ==
    IF caller \in repos_fault THEN [raised |-> TRUE, id |-> None]
    ELSE LET repositories == server_repos
             hits == {i \in DOMAIN repositories :
                        lower(repositories[i].name) = lower(repository_name)}
         IN  IF hits = {} THEN [raised |-> FALSE, id |-> None]
             ELSE LET first == CHOOSE i \in hits : \A j \in hits : i <= j
                  IN  [raised |-> FALSE, id |-> <<repositories[first].id>>]

\* Python truthiness of repo_id (None and "" are falsy)
truthy(repo_id) == repo_id # None /\ repo_id[1] # ""

-----------------------------------------------------------------------------
(* get_deployment_frequency                                                *)

\* variant: the mean is taken over every calendar day of the window
get_deployment_frequency_per_window_day(start, end) ==
    IF "deployment_frequency" \in builds_fault THEN Raise
    ELSE LET builds == get_builds(start, end, "completed", <<"succeeded">>,
                                  refs_heads(BranchName))
         IN  Return(IF builds # <<>>
                    THEN Rat(Len(builds), date(end) - date(start) + 1)
                    ELSE Zero)

get_deployment_frequency(start, end) ==
    IF "deployment_frequency" \in builds_fault THEN Raise
    ELSE LET builds == get_builds(start, end, "completed", <<"succeeded">>,
                                  refs_heads(BranchName))
             deploy_dates == [i \in DOMAIN builds |-> date(builds[i].finish_time[1])]
         IN  Return(IF deploy_dates # <<>>
                    THEN series_mean(value_counts(deploy_dates))
                    ELSE Zero)

-----------------------------------------------------------------------------
(* get_lead_time_for_changes                                               *)

\* lines 70-75: the loop over one build's changes
RECURSIVE changes_loop(_, _, _)
changes_loop(changes, build, lead_times) ==
    IF changes = <<>> THEN lead_times
    ELSE LET change == Head(changes)
             commit_time == change.timestamp[1]
             deploy_time == build.finish_time[1]
             lead_time == Rat(deploy_time - commit_time, SecondsPerHour)
         IN  changes_loop(Tail(changes), build,
                          IF change.has_timestamp
                          THEN Append(lead_times, lead_time)
                          ELSE lead_times)

\* lines 60-78: the loop over the builds; a get_build_changes that raises is
\* caught and the loop continues with the next build
\* variant: the first get_build_changes that raises ends the loop
RECURSIVE builds_loop_break(_, _, _)
builds_loop_break(builds, repo_id, lead_times) ==
    IF builds = <<>> THEN lead_times
    ELSE LET build == Head(builds)
             resp == server_changes[build.id]
         IN  IF truthy(repo_id) /\ resp.raises THEN lead_times
             ELSE builds_loop_break(Tail(builds), repo_id,
                    IF truthy(repo_id)
                    THEN changes_loop(resp.changes, build, lead_times)
                    ELSE lead_times)

RECURSIVE builds_loop(_, _, _)
builds_loop(builds, repo_id, lead_times) ==
    IF builds = <<>> THEN lead_times
    ELSE LET build == Head(builds)
             resp == server_changes[build.id]
         IN  builds_loop(Tail(builds), repo_id,
                IF truthy(repo_id) /\ ~resp.raises
                THEN changes_loop(resp.changes, build, lead_times)
                ELSE lead_times)

\* lines 50-80: everything after repo_id is assigned
lead_time_given(repo_id, start, end) ==
    IF "lead_time_for_changes" \in builds_fault THEN Raise
    ELSE LET builds == get_builds(start, end, "completed", <<"succeeded">>,
                                  refs_heads(BranchName))
             lead_times == builds_loop(builds, repo_id, <<>>)
         IN  Return(IF lead_times # <<>> THEN np_median(lead_times) ELSE Zero)

get_lead_time_for_changes(start, end) ==
    LET repo == get_repository_id("lead_time_for_changes", ProjectName,
                                  RepositoryName)
    IN  IF repo.raised THEN Raise
        ELSE lead_time_given(repo.id, start, end)

-----------------------------------------------------------------------------
(* get_change_failure_rate                                                 *)

\* variant: the builds are fetched with result_filter = "succeeded"
get_change_failure_rate_succeeded_only(start, end) ==
    IF "change_failure_rate" \in builds_fault THEN Raise
    ELSE LET builds == get_builds(start, end, "completed", <<"succeeded">>,
                                  refs_heads(BranchName))
             total_deployments == Len(builds)
             failed_deployments ==
                 Len(SelectSeq(builds, LAMBDA b : b.result = "failed"))
         IN  Return(IF total_deployments > 0
                    THEN Rat(failed_deployments * 100, total_deployments)
                    ELSE Zero)

\* variant: no guard on total_deployments, so 0 / 0 raises ZeroDivisionError
get_change_failure_rate_unguarded(start, end) ==
    IF "change_failure_rate" \in builds_fault THEN Raise
    ELSE LET builds == get_builds(start, end, "completed", None,
                                  refs_heads(BranchName))
             total_deployments == Len(builds)
             failed_deployments ==
                 Len(SelectSeq(builds, LAMBDA b : b.result = "failed"))
         IN  IF total_deployments = 0 THEN Raise
             ELSE Return(Rat(failed_deployments * 100, total_deployments))

get_change_failure_rate(start, end) ==
    IF "change_failure_rate" \in builds_fault THEN Raise
    ELSE LET builds == get_builds(start, end, "completed", None,
                                  refs_heads(BranchName))
             total_deployments == Len(builds)
             failed_deployments ==
                 Len(SelectSeq(builds, LAMBDA b : b.result = "failed"))
         IN  Return(IF total_deployments > 0
                    THEN Rat(failed_deployments * 100, total_deployments)
                    ELSE Zero)

-----------------------------------------------------------------------------
(* get_time_to_restore                                                     *)

\* datetime.strptime(s, '%Y-%m-%dT%H:%M:%S.%fZ'): the instant the string
\* denotes, ValueError when the string is not in that format
strptime(s) ==
    [raised |-> s.format # "%Y-%m-%dT%H:%M:%S.%fZ", value |-> s.instant]

\* variant: a work item without both timestamps counts as 0 hours
work_item_step_zero_filled(item, restoration_times) ==
    IF item.raises THEN [raised |-> TRUE, times |-> restoration_times]
    ELSE IF /\ "System.CreatedDate" \in DOMAIN item.fields
            /\ "System.ChangedDate" \in DOMAIN item.fields
         THEN LET created_date == strptime(item.fields["System.CreatedDate"])
                  closed_date == strptime(item.fields["System.ChangedDate"])
                  restoration_time ==
                      Rat(closed_date.value - created_date.value, SecondsPerHour)
              IN  IF created_date.raised \/ closed_date.raised
                  THEN [raised |-> TRUE, times |-> restoration_times]
                  ELSE [raised |-> FALSE,
                        times |-> Append(restoration_times, restoration_time)]
         ELSE [raised |-> FALSE, times |-> Append(restoration_times, Zero)]

\* lines 137-144: one iteration of the loop over the query results
work_item_step(item, restoration_times) ==
    IF item.raises THEN [raised |-> TRUE, times |-> restoration_times]
    ELSE IF /\ "System.CreatedDate" \in DOMAIN item.fields
            /\ "System.ChangedDate" \in DOMAIN item.fields
         THEN LET created_date == strptime(item.fields["System.CreatedDate"])
                  closed_date == strptime(item.fields["System.ChangedDate"])
                  restoration_time ==
                      Rat(closed_date.value - created_date.value, SecondsPerHour)
              IN  IF created_date.raised \/ closed_date.raised
                  THEN [raised |-> TRUE, times |-> restoration_times]
                  ELSE [raised |-> FALSE,
                        times |-> Append(restoration_times, restoration_time)]
         ELSE [raised |-> FALSE, times |-> restoration_times]

\* variant: a work item whose iteration raises is skipped
RECURSIVE work_items_loop_skip(_, _)
work_items_loop_skip(query_results, restoration_times) ==
    IF query_results = <<>> THEN [raised |-> FALSE, times |-> restoration_times]
    ELSE LET r == work_item_step(server_items[Head(query_results)],
                                 restoration_times)
         IN  work_items_loop_skip(Tail(query_results), r.times)

\* lines 136-144: the loop; an exception ends it
RECURSIVE work_items_loop(_, _)
work_items_loop(query_results, restoration_times) ==
    IF query_results = <<>> THEN [raised |-> FALSE, times |-> restoration_times]
    ELSE LET r == work_item_step(server_items[Head(query_results)],
                                 restoration_times)
         IN  IF r.raised THEN r
             ELSE work_items_loop(Tail(query_results), r.times)

\* lines 103-146: the body of the try
time_to_restore_try(start, end) ==
    LET repo == get_repository_id("time_to_restore", ProjectName,
                                  RepositoryName)
    IN  IF ttr_fault = "client" THEN Raise
        ELSE IF repo.raised THEN Raise
        ELSE IF ttr_fault = "query" THEN Raise
        ELSE LET query_results == [i \in DOMAIN server_items |-> i]
             IN  IF query_results = <<>> THEN Return(Zero)
                 ELSE LET r == work_items_loop(query_results, <<>>)
                      IN  IF r.raised THEN Raise
                          ELSE Return(IF r.times # <<>>
                                      THEN np_median(r.times)
                                      ELSE Zero)

\* variant: the body without the try
get_time_to_restore_unguarded(start, end) == time_to_restore_try(start, end)

\* lines 100-150: except Exception: print; return 0
get_time_to_restore(start, end) ==
    LET r == time_to_restore_try(start, end)
    IN  IF r.raised THEN Return(Zero) ELSE r

-----------------------------------------------------------------------------
(* get_all_metrics                                                         *)

\* a reducer's result goes into the dict, or its exception leaves
\* get_all_metrics (no try in lines 152-172)
Evaluate(name, r, next) ==
    IF r.raised
    THEN /\ pc' = "raised"
         /\ raised' = name
         /\ UNCHANGED metrics
    ELSE /\ pc' = next
         /\ metrics' = metrics @@ (name :> r.value)
         /\ UNCHANGED raised

\* lines 154-155
ResolveWindow ==
    /\ pc = "start"
    /\ end_date' = <<Now>>
    /\ start_date' = <<Now - timedelta_days(days_back)>>
    /\ pc' = "deployment_frequency"
    /\ UNCHANGED <<metrics, raised, env>>

\* lines 158-160
CallDeploymentFrequency ==
    /\ pc = "deployment_frequency"
    /\ Evaluate("deployment_frequency",
                get_deployment_frequency(start_date[1], end_date[1]),
                "lead_time_for_changes")
    /\ UNCHANGED <<start_date, end_date, env>>

\* lines 161-163
CallLeadTimeForChanges ==
    /\ pc = "lead_time_for_changes"
    /\ Evaluate("lead_time_for_changes",
                get_lead_time_for_changes(start_date[1], end_date[1]),
                "change_failure_rate")
    /\ UNCHANGED <<start_date, end_date, env>>

\* lines 164-166
CallChangeFailureRate ==
    /\ pc = "change_failure_rate"
    /\ Evaluate("change_failure_rate",
                get_change_failure_rate(start_date[1], end_date[1]),
                "time_to_restore")
    /\ UNCHANGED <<start_date, end_date, env>>

\* lines 167-169
CallTimeToRestore ==
    /\ pc = "time_to_restore"
    /\ Evaluate("time_to_restore",
                get_time_to_restore(start_date[1], end_date[1]),
                "return")
    /\ UNCHANGED <<start_date, end_date, env>>

\* line 172
ReturnMetrics ==
    /\ pc = "return"
    /\ pc' = "done"
    /\ UNCHANGED <<start_date, end_date, metrics, raised, env>>

Next ==
    \/ ResolveWindow
    \/ CallDeploymentFrequency
    \/ CallLeadTimeForChanges
    \/ CallChangeFailureRate
    \/ CallTimeToRestore
    \/ ReturnMetrics

-----------------------------------------------------------------------------
(* Environments.                                                           *)

SeqsUpTo(S, n) == UNION {[1..k -> S] : k \in 0..n}

Completed(result, branch, t) ==
    [status |-> "completed", result |-> result,
     source_branch |-> refs_heads(branch), finish_time |-> <<t>>]

InProgress(branch) ==
    [status |-> "inProgress", result |-> "none",
     source_branch |-> refs_heads(branch), finish_time |-> None]

\* finish times used: 06:00 and 16:30 on day 1, 02:00 on day 2
BuildKinds ==
    {Completed(r, "main", t) : r \in {"succeeded", "failed"}, t \in {Hours(30), Hours(50)}}
    \cup {Completed("succeeded", "main", Hours(40) + 1800),
          Completed("succeeded", "dev", Hours(50)),
          InProgress("main")}

SucceededKinds == {Completed("succeeded", "main", t) : t \in {Hours(30), Hours(50)}}

\* the builds of a project, numbered in the order the client lists them
BuildLists(kinds, n) ==
    {[i \in DOMAIN f |-> [id |-> i] @@ f[i]] : f \in SeqsUpTo(kinds, n)}

\* a change committed at 10:30 on day 0, and one without the attribute
TimedChange == [has_timestamp |-> TRUE, timestamp |-> <<Hours(10) + 1800>>]
UntimedChange == [has_timestamp |-> FALSE, timestamp |-> None]

ChangesRaise == [raises |-> TRUE, changes |-> <<>>]
ChangesOk(cs) == [raises |-> FALSE, changes |-> cs]

ChangeResponses(n) ==
    {ChangesRaise} \cup {ChangesOk(cs) : cs \in SeqsUpTo({TimedChange, UntimedChange}, n)}

WellFormed(t) == [format |-> "%Y-%m-%dT%H:%M:%S.%fZ", instant |-> t]
Malformed(t) == [format |-> "%Y-%m-%dT%H:%M:%SZ", instant |-> t]

Field(name, opt) == IF opt = None THEN <<>> ELSE name :> opt[1]

WorkItem(created, changed) ==
    [raises |-> FALSE,
     fields |-> Field("System.CreatedDate", created)
                @@ Field("System.ChangedDate", changed)]

WorkItemRaises == [raises |-> TRUE, fields |-> <<>>]

\* created at 10:00 on day 0 or 16:00 on day 1, changed at 01:30 on day 1
ItemKinds ==
    {WorkItem(c, d) : c \in {None, <<WellFormed(Hours(10))>>, <<WellFormed(Hours(40))>>},
                      d \in {None, <<WellFormed(Hours(25) + 1800)>>}}
    \cup {WorkItem(<<Malformed(Hours(10))>>, <<WellFormed(Hours(25) + 1800)>>),
          WorkItem(<<Malformed(Hours(10))>>, None),
          WorkItemRaises}

RepoResolved == <<[name |-> "Other", id |-> "r1"], [name |-> "APP", id |-> "r2"]>>
RepoMissing == <<[name |-> "Other", id |-> "r1"]>>

BuildReducers == {"deployment_frequency", "lead_time_for_changes",
                  "change_failure_rate"}

\* the state get_all_metrics starts in
Entry ==
    /\ pc = "start"
    /\ start_date = None
    /\ end_date = None
    /\ metrics = <<>>
    /\ raised = "none"

\* environments that vary the calls that raise
InitFaults ==
    /\ days_back \in (0 - 1)..MaxDaysBack
    /\ server_repos \in {RepoResolved, RepoMissing}
    /\ repos_fault \in SUBSET {"lead_time_for_changes", "time_to_restore"}
    /\ builds_fault \in SUBSET BuildReducers
    /\ ttr_fault \in {"none", "client", "query"}
    /\ server_builds \in BuildLists({Completed(r, "main", Hours(50)) :
                                        r \in {"succeeded", "failed"}}, 1)
    /\ server_changes \in [DOMAIN server_builds ->
                             {ChangesRaise, ChangesOk(<<TimedChange>>)}]
    /\ server_items \in {<<>>, <<WorkItemRaises>>,
                         <<WorkItem(<<WellFormed(Hours(10))>>,
                                    <<WellFormed(Hours(25) + 1800)>>)>>}

\* environments that vary the builds
InitBuilds ==
    /\ days_back \in 0..MaxDaysBack
    /\ server_repos = RepoResolved
    /\ repos_fault = {}
    /\ builds_fault = {}
    /\ ttr_fault = "none"
    /\ server_builds \in BuildLists(BuildKinds, MaxBuilds)
    /\ server_changes = [i \in DOMAIN server_builds |-> ChangesOk(<<TimedChange>>)]
    /\ server_items = <<>>

\* environments that vary the changes of the builds
InitChanges ==
    /\ days_back = MaxDaysBack
    /\ server_repos \in {RepoResolved, RepoMissing}
    /\ repos_fault = {}
    /\ builds_fault = {}
    /\ ttr_fault = "none"
    /\ server_builds \in BuildLists(SucceededKinds, MaxChangeBuilds)
    /\ server_changes \in [DOMAIN server_builds -> ChangeResponses(MaxChanges)]
    /\ server_items = <<>>

\* environments that vary the work items
InitIncidents ==
    /\ days_back = MaxDaysBack
    /\ server_repos = RepoResolved
    /\ repos_fault = {}
    /\ builds_fault = {}
    /\ ttr_fault = "none"
    /\ server_builds = <<>>
    /\ server_changes = <<>>
    /\ server_items \in SeqsUpTo(ItemKinds, MaxIncidents)

Init ==
    /\ Entry
    /\ \/ InitFaults
       \/ InitBuilds
       \/ InitChanges
       \/ InitIncidents

Spec == Init /\ [][Next]_vars

-----------------------------------------------------------------------------
(* What the claims speak of, stated over the environment alone.            *)

Returned(m) == m \in DOMAIN metrics

WindowStart == Now - days_back * SecondsPerDay
WindowEnd == Now

\* a completed build of the branch that finished inside the window
Deployed(b) ==
    /\ b.status = "completed"
    /\ b.source_branch = "refs/heads/main"
    /\ WindowStart <= b.finish_time[1]
    /\ b.finish_time[1] < WindowEnd

Qualifying(b) == Deployed(b) /\ b.result = "succeeded"

QualifyingBuilds == {i \in DOMAIN server_builds : Qualifying(server_builds[i])}
DeployedBuilds == {i \in DOMAIN server_builds : Deployed(server_builds[i])}

\* the median of the values Val(e), e \in E, E finite and non-empty: the mean
\* of the two middle order statistics (which coincide when E is odd)
MedianOf(E, Val(_)) ==
    LET n == Cardinality(E)
        Stat(r) == CHOOSE x \in {Val(e) : e \in E} :
                      /\ Cardinality({e \in E : RatLess(Val(e), x)}) < r
                      /\ r <= Cardinality({e \in E : RatLeq(Val(e), x)})
    IN  RatHalf(RatAdd(Stat((n + 1) \div 2), Stat(n \div 2 + 1)))

RepositoryResolves ==
    \E i \in DOMAIN server_repos : server_repos[i].name \in {"app", "App", "APP"}

\* the changes that carry a timestamp, of the qualifying builds whose
\* changes could be fetched
FetchedChanges ==
    UNION {{<<i, j>> : j \in {k \in DOMAIN server_changes[i].changes :
                                 server_changes[i].changes[k].has_timestamp}} :
           i \in {b \in QualifyingBuilds : ~server_changes[b].raises}}

LeadHours(e) ==
    Rat(server_builds[e[1]].finish_time[1]
          - server_changes[e[1]].changes[e[2]].timestamp[1], SecondsPerHour)

HasBothDates(item) ==
    {"System.CreatedDate", "System.ChangedDate"} \subseteq DOMAIN item.fields

\* fetching the work item fails, or one of its two timestamps does not parse
ItemFails(item) ==
    \/ item.raises
    \/ /\ HasBothDates(item)
       /\ \E f \in DOMAIN item.fields :
             item.fields[f].format # "%Y-%m-%dT%H:%M:%S.%fZ"

FailingItems == {i \in DOMAIN server_items : ItemFails(server_items[i])}

RestoredItems ==
    {i \in DOMAIN server_items :
        ~ItemFails(server_items[i]) /\ HasBothDates(server_items[i])}

RestoreHours(i) ==
    Rat(server_items[i].fields["System.ChangedDate"].instant
          - server_items[i].fields["System.CreatedDate"].instant, SecondsPerHour)

\* something raises inside get_time_to_restore
RestoreFails ==
    \/ ttr_fault # "none"
    \/ "time_to_restore" \in repos_fault
    \/ FailingItems # {}

\* the reducer's own top-level calls raise
ReducerRaises(m) ==
    \/ m \in builds_fault
    \/ m = "lead_time_for_changes" /\ m \in repos_fault
    \/ m = "time_to_restore" /\ RestoreFails

-----------------------------------------------------------------------------
(* Claims.                                                                 *)

\* C1: in get_all_metrics a reducer that raises has its metric reported as
\* 0, the other metrics are still computed, and no error reaches the caller
\* of get_all_metrics.
C1_ReducerFailureIsolated ==
    /\ raised = "none"
    /\ \A m \in DOMAIN metrics : ReducerRaises(m) => metrics[m] = Zero
    /\ pc = "done" => DOMAIN metrics = MetricNames

\* C2: get_time_to_restore never fails its caller: whatever raises while
\* obtaining the client, resolving the repository, querying, fetching a work
\* item or parsing its timestamps, the reducer returns 0.
C2_TimeToRestoreNeverFails ==
    /\ raised # "time_to_restore"
    /\ (pc \in {"return", "done"} /\ RestoreFails)
          => (Returned("time_to_restore") /\ metrics["time_to_restore"] = Zero)

C2_Witness ==
    /\ pc = "done"
    /\ "time_to_restore" \in repos_fault
    /\ \E i \in DOMAIN server_items : server_items[i].raises

C2_WitnessMalformed ==
    /\ pc = "done"
    /\ \E i \in FailingItems : ~server_items[i].raises

\* C3: with days_back < 0 resolving the window fails with InvalidArgument,
\* no reducer is invoked and no report is returned; with days_back >= 0 the
\* window is start = now - days_back days, end = now, and start <= end.
C3_WindowResolution ==
    /\ (days_back < 0 /\ pc # "start")
          => (pc = "raised" /\ raised = "InvalidArgument" /\ metrics = <<>>)
    /\ (days_back >= 0 /\ pc # "start")
          => /\ start_date = <<Now - days_back * SecondsPerDay>>
             /\ end_date = <<Now>>
             /\ start_date[1] <= end_date[1]

\* C4: in get_lead_time_for_changes a build whose changes cannot be fetched
\* contributes no lead time, every other build still contributes, and the
\* result is the median of the flat collection, or 0 when it is empty.
C4_FailedFetchOmitsBuild ==
    (/\ Returned("lead_time_for_changes")
     /\ RepositoryResolves
     /\ \E i \in QualifyingBuilds : server_changes[i].raises)
        => metrics["lead_time_for_changes"] =
              IF FetchedChanges = {} THEN Zero
              ELSE MedianOf(FetchedChanges, LeadHours)

C4_Witness ==
    /\ Returned("lead_time_for_changes")
    /\ RepositoryResolves
    /\ \E i, k \in QualifyingBuilds :
          /\ i < k
          /\ server_changes[i].raises
          /\ \E e \in FetchedChanges : e[1] = k
          /\ server_builds[i].finish_time # server_builds[k].finish_time
    /\ metrics["lead_time_for_changes"] # Zero

\* C5: no reducer needs the result of get_repository_id: with the same
\* builds, changes and work items, get_lead_time_for_changes returns the
\* same value whether the repository resolves to an id or to None.
C5_RepositoryIdNotRequired ==
    Returned("lead_time_for_changes")
        => \A repo_id \in {None, <<"r2">>} :
              lead_time_given(repo_id, start_date[1], end_date[1]).value
                 = metrics["lead_time_for_changes"]

\* C6: get_deployment_frequency is the number of qualifying builds divided
\* by the number of distinct days on which one finished, and 0 when there is
\* no qualifying build.
C6_DeploymentsPerActiveDay ==
    Returned("deployment_frequency")
        => LET days == {date(server_builds[i].finish_time[1]) : i \in QualifyingBuilds}
               v == metrics["deployment_frequency"]
           IN  IF QualifyingBuilds = {} THEN v = Zero
               ELSE /\ v[2] > 0
                    /\ v[1] * Cardinality(days) = Cardinality(QualifyingBuilds) * v[2]

C6_Witness ==
    /\ Returned("deployment_frequency")
    /\ metrics["deployment_frequency"] = <<3, 2>>

C6_WitnessOneDay ==
    /\ Returned("deployment_frequency")
    /\ metrics["deployment_frequency"] = <<2, 1>>
    /\ Cardinality(QualifyingBuilds) = 2
    /\ Len(server_builds) = 3
    /\ days_back = 2

\* C7: get_change_failure_rate is failed / total * 100 over the completed
\* builds of the branch in the window, whatever their result; it is 0 when
\* there is none, and always between 0 and 100.
C7_ChangeFailureRate ==
    Returned("change_failure_rate")
        => LET total == Cardinality(DeployedBuilds)
               failed == Cardinality({i \in DeployedBuilds :
                                         server_builds[i].result = "failed"})
               v == metrics["change_failure_rate"]
           IN  /\ total = 0 => v = Zero
               /\ total > 0 => (v[2] > 0 /\ v[1] * total = failed * 100 * v[2])
               /\ RatLeq(Zero, v) /\ RatLeq(v, <<100, 1>>)

C7_Witness ==
    /\ Returned("change_failure_rate")
    /\ metrics["change_failure_rate"] = <<100, 3>>

\* C8: in get_time_to_restore a work item without the created or the
\* changed timestamp is left out; the result is the median of
\* (changed - created) in hours over the items that have both, negative
\* values included, and 0 when there is no such item.
C8_RestoreMedianExcludesIncomplete ==
    (Returned("time_to_restore") /\ ~RestoreFails)
        => metrics["time_to_restore"] =
              IF RestoredItems = {} THEN Zero
              ELSE MedianOf(RestoredItems, RestoreHours)

C8_Witness ==
    /\ Returned("time_to_restore")
    /\ ~RestoreFails
    /\ \E i \in DOMAIN server_items : ~HasBothDates(server_items[i])
    /\ Cardinality(RestoredItems) = 2
    /\ metrics["time_to_restore"][1] < 0

\* C9 as claimed: a work item whose fetch or parse fails is skipped and the
\* other matched items still give the median that is returned.
C9_FailingItemSkipped ==
    (/\ Returned("time_to_restore")
     /\ ttr_fault = "none"
     /\ "time_to_restore" \notin repos_fault)
        => metrics["time_to_restore"] =
              IF RestoredItems = {} THEN Zero
              ELSE MedianOf(RestoredItems, RestoreHours)

\* C9 as amended: a failure inside the per-item loop of get_time_to_restore
\* ends the loop; the reducer returns 0 and the restore times of the other
\* matched items are discarded.
C9_FailingItemZeroesMetric ==
    (Returned("time_to_restore") /\ FailingItems # {})
        => metrics["time_to_restore"] = Zero

C9_Witness ==
    /\ Returned("time_to_restore")
    /\ ttr_fault = "none"
    /\ "time_to_restore" \notin repos_fault
    /\ \E i \in FailingItems : \E k \in RestoredItems : k < i
    /\ RestoredItems # {}
    /\ MedianOf(RestoredItems, RestoreHours) # Zero

\* every fetcher succeeds and none returns a record
NoRecords ==
    /\ builds_fault = {}
    /\ repos_fault = {}
    /\ ttr_fault = "none"
    /\ DeployedBuilds = {}
    /\ server_items = <<>>

\* C10: when the fetchers succeed and return no record in the window
\* (days_back = 0 included), get_all_metrics returns a report with the four
\* metric names, each 0, and does not crash.
C10_ZeroSentinel ==
    NoRecords
        => /\ raised = "none"
           /\ \A m \in DOMAIN metrics : metrics[m] = Zero
           /\ pc = "done" => DOMAIN metrics = MetricNames

C10_Witness ==
    /\ pc = "done"
    /\ NoRecords
    /\ days_back = 0
    /\ \E i \in DOMAIN server_builds : server_builds[i].status = "completed"

====
